---- MODULE Spec2Model ----
(***************************************************************************)
(* A model of mongo_parse.py: the Parser class (parse_cluster_info,        *)
(* parse_database_info, parse_file, write_to_csv), parse_arguments and     *)
(* main.                                                                   *)
(*                                                                         *)
(* Text is a sequence of one-character strings.  A regular expression is a *)
(* sequence of elements (a literal, or a greedy repetition of a character  *)
(* class, possibly the capture group) and re.search is computed by         *)
(* re_search below.  A record (a Python dict of str to str) is a function  *)
(* from field names to text.                                                *)
(***************************************************************************)
EXTENDS Integers, Sequences, FiniteSets, TLC

VARIABLES
    pc,           \* where the process is: "loaded", main's steps, "exited"
    argv,         \* the command line main was started with
    fault,        \* what the environment made go wrong in this run of main
    exitCode,     \* the process exit status, -1 while it runs
    config,       \* Parser.config
    parsed_data,  \* Parser.parsed_data
    stdout,       \* the rows written to sys.stdout
    outfile,      \* the rows written to the named output file
    handle,       \* the file object of the last write_to_csv call
    log,          \* what the last call logged (to stderr)
    last,         \* the last call: its arguments and how it ended
    calls,        \* number of calls made on the Parser
    firstRet,     \* what each extractor returned the first time, by content
    lastGood      \* what the last parse_file that returned normally returned

vars == <<pc, argv, fault, exitCode, config, parsed_data, stdout, outfile,
          handle, log, last, calls, firstRet, lastGood>>

----------------------------------------------------------------------------
(* Text helpers: str.strip, str.split, str.join, str(int).                 *)

\* The characters str.strip() removes and the regex class \s matches.
Whitespace == {" ", "\t", "\n", "\r"}

IsSpace(c) == c \in Whitespace

\* s with the leading characters that are in cs removed.
RECURSIVE LStripSet(_, _)
LStripSet(s, cs) ==
    IF s # <<>> /\ Head(s) \in cs THEN LStripSet(Tail(s), cs) ELSE s

\* s with the trailing characters that are in cs removed.
RECURSIVE RStripSet(_, _)
RStripSet(s, cs) ==
    IF s # <<>> /\ s[Len(s)] \in cs
    THEN RStripSet(SubSeq(s, 1, Len(s) - 1), cs)
    ELSE s

\* str.strip(chars): every leading and trailing character in cs goes.
StripSet(s, cs) == RStripSet(LStripSet(s, cs), cs)

\* str.strip()
Strip(s) == StripSet(s, Whitespace)

\* str.split(sep) for a one-character separator: never an empty list.
RECURSIVE SplitFrom(_, _, _)
SplitFrom(s, sep, cur) ==
    IF s = <<>> THEN <<cur>>
    ELSE IF Head(s) = sep THEN <<cur>> \o SplitFrom(Tail(s), sep, <<>>)
    ELSE SplitFrom(Tail(s), sep, Append(cur, Head(s)))

Split(s, sep) == SplitFrom(s, sep, <<>>)

\* sep.join(pieces)
RECURSIVE Join(_, _)
Join(pieces, sep) ==
    IF pieces = <<>> THEN <<>>
    ELSE IF Len(pieces) = 1 THEN pieces[1]
    ELSE pieces[1] \o sep \o Join(Tail(pieces), sep)

Digits == <<"0", "1", "2", "3", "4", "5", "6", "7", "8", "9">>

\* str(n) for n >= 0: the decimal digits of n.
RECURSIVE IntToStr(_)
IntToStr(n) ==
    IF n < 10 THEN <<Digits[n + 1]>>
    ELSE IntToStr(n \div 10) \o <<Digits[(n % 10) + 1]>>

----------------------------------------------------------------------------
(* Regular expressions.                                                    *)

Lit(s) == [t |-> "lit", s |-> s, cls |-> "none", min |-> 0, grp |-> FALSE]

Rep(cls, min, grp) ==
    [t |-> "rep", s |-> <<>>, cls |-> cls, min |-> min, grp |-> grp]

\* Membership of a character in a character class.
InClass(c, cls) ==
    CASE cls = "space"       -> IsSpace(c)         \* \s
      [] cls = "notspace"    -> ~IsSpace(c)        \* [^\s]
      [] cls = "notquote"    -> c # "'"            \* [^\']
      [] cls = "notrbracket" -> c # "]"            \* [^\]]

\* The literal lit stands in s at position i.
LitAt(s, i, lit) ==
    /\ i + Len(lit) - 1 <= Len(s)
    /\ \A k \in 1..Len(lit) : s[i + k - 1] = lit[k]

\* The end (exclusive) of the longest run of cls characters starting at i.
RECURSIVE RunEnd(_, _, _)
RunEnd(s, i, cls) ==
    IF i <= Len(s) /\ InClass(s[i], cls) THEN RunEnd(s, i + 1, cls) ELSE i

NoMatch == [ok |-> FALSE, group |-> <<>>]

\* Match elements k.. of pat against s from position i; g is group 1 so far.
\* Repetitions are greedy.  No pattern of this program needs backtracking:
\* each repetition is followed by a character outside its class, except
\* [^\]]* in the hosts pattern, which is followed by \s*\] and so fails for
\* every split when it fails for the longest one.
RECURSIVE MatchFrom(_, _, _, _, _)
MatchFrom(pat, k, s, i, g) ==
    IF k > Len(pat) THEN [ok |-> TRUE, group |-> g]
    ELSE IF pat[k].t = "lit"
    THEN IF LitAt(s, i, pat[k].s)
         THEN MatchFrom(pat, k + 1, s, i + Len(pat[k].s), g)
         ELSE NoMatch
    ELSE LET j == RunEnd(s, i, pat[k].cls)
         IN  IF j - i < pat[k].min THEN NoMatch
             ELSE MatchFrom(pat, k + 1, s, j,
                            IF pat[k].grp THEN SubSeq(s, i, j - 1) ELSE g)

\* The pattern matches at position i of s.
MatchAt(pat, s, i) == MatchFrom(pat, 1, s, i, <<>>)

\* re.search(pattern, s): the match at the leftmost position that has one.
RECURSIVE SearchFrom(_, _, _)
SearchFrom(pat, s, i) ==
    IF i > Len(s) + 1 THEN NoMatch
    ELSE LET m == MatchAt(pat, s, i)
         IN  IF m.ok THEN m ELSE SearchFrom(pat, s, i + 1)

re_search(pat, s) == SearchFrom(pat, s, 1)

----------------------------------------------------------------------------
(* The pattern registry.                                                   *)

Quote == "'"

\* r'setName:\s*\'([^\']+)\''
RE_replica_set_name ==
    << Lit(<<"s", "e", "t", "N", "a", "m", "e", ":">>),
       Rep("space", 0, FALSE), Lit(<<Quote>>),
       Rep("notquote", 1, TRUE), Lit(<<Quote>>) >>

\* r'hosts:\s*\[\s*([^\]]*)\s*\]'
RE_hosts ==
    << Lit(<<"h", "o", "s", "t", "s", ":">>),
       Rep("space", 0, FALSE), Lit(<<"[">>), Rep("space", 0, FALSE),
       Rep("notrbracket", 0, TRUE), Rep("space", 0, FALSE), Lit(<<"]">>) >>

\* r'primary:\s*\'([^\']+)\''
RE_primary_host ==
    << Lit(<<"p", "r", "i", "m", "a", "r", "y", ":">>),
       Rep("space", 0, FALSE), Lit(<<Quote>>),
       Rep("notquote", 1, TRUE), Lit(<<Quote>>) >>

\* r'\*\* DATABASE:\s*([^\s]+)'
RE_database_name ==
    << Lit(<<"*", "*", " ", "D", "A", "T", "A", "B", "A", "S", "E", ":">>),
       Rep("space", 0, FALSE), Rep("notspace", 1, TRUE) >>

CLUSTER_REGEXES ==
    [replica_set_name |-> RE_replica_set_name,
     hosts            |-> RE_hosts,
     primary_host     |-> RE_primary_host]

DATABASE_REGEXES == [database_name |-> RE_database_name]

----------------------------------------------------------------------------
(* Parser: the extractors.  self is [config, parsed_data].                 *)

\* The value stored for the hosts field, from capture group 1.
hosts_value(group) ==
    LET pieces == Split(group, ",")
        kept   == SelectSeq(pieces, LAMBDA host : Strip(host) # <<>>)
        hosts  == [i \in 1..Len(kept) |-> StripSet(Strip(kept[i]), {Quote})]
    IN  Join(hosts, <<" ", "|", " ">>)

\* parse_cluster_info storing a field only when its value is not empty.
parse_cluster_info_dropempty(self, content) ==
    LET patterns == self.config.cluster
        value(f) == LET group == re_search(patterns[f], content).group
                    IN  IF f = "hosts" THEN hosts_value(group)
                        ELSE Strip(group)
        matched  == {f \in DOMAIN patterns :
                       re_search(patterns[f], content).ok /\ value(f) # <<>>}
        record   == [f \in matched |-> value(f)]
    IN  IF DOMAIN record # {} THEN <<record>> ELSE <<>>

parse_cluster_info(self, content) ==
    LET patterns == self.config.cluster
        matched  == {f \in DOMAIN patterns : re_search(patterns[f], content).ok}
        record   == [f \in matched |->
                       LET group == re_search(patterns[f], content).group
                       IN  IF f = "hosts" THEN hosts_value(group)
                           ELSE Strip(group)]
    IN  IF DOMAIN record # {} THEN <<record>> ELSE <<>>

\* parse_database_info appending to the stored list and returning that list.
parse_database_info_accum(self, content) ==
    LET patterns == self.config.database
        lines    == Split(Strip(content), "\n")
        record(line_num) ==
            [f \in {"line_number"} \cup DOMAIN patterns |->
               IF f \in DOMAIN patterns
               THEN LET match == re_search(patterns[f], lines[line_num])
                    IN  IF match.ok THEN Strip(match.group) ELSE <<>>
               ELSE IntToStr(line_num)]
        records  == [n \in 1..Len(lines) |-> record(n)]
    IN  self.parsed_data \o
        SelectSeq(records,
                  LAMBDA r : "database_name" \in DOMAIN r
                             /\ r["database_name"] # <<>>)

parse_database_info(self, content) ==
    LET patterns == self.config.database
        lines    == Split(Strip(content), "\n")
        record(line_num) ==
            [f \in {"line_number"} \cup DOMAIN patterns |->
               IF f \in DOMAIN patterns
               THEN LET match == re_search(patterns[f], lines[line_num])
                    IN  IF match.ok THEN Strip(match.group) ELSE <<>>
               ELSE IntToStr(line_num)]
        records  == [n \in 1..Len(lines) |-> record(n)]
    IN  SelectSeq(records,
                  LAMBDA r : "database_name" \in DOMAIN r
                             /\ r["database_name"] # <<>>)

----------------------------------------------------------------------------
(* State after construction: Parser(config) with the two registries.       *)

NoCall == [op |-> "none", arg |-> <<>>, out |-> "none", io |-> "none",
           status |-> "none", exc |-> "none", ret |-> <<>>, emitted |-> <<>>]

Self == [config |-> config, parsed_data |-> parsed_data]

Init ==
    /\ pc = "loaded"
    /\ argv = <<>>
    /\ fault = "none"
    /\ exitCode = -1
    /\ config = [cluster |-> CLUSTER_REGEXES, database |-> DATABASE_REGEXES]
    /\ parsed_data = <<>>
    /\ stdout = <<>>
    /\ outfile = <<>>
    /\ handle = "none"
    /\ log = <<>>
    /\ last = NoCall
    /\ calls = 0
    /\ firstRet = <<>>
    /\ lastGood = <<>>

Returned(op, arg, ret) ==
    [op |-> op, arg |-> arg, out |-> "none", io |-> "none",
     status |-> "return", exc |-> "none", ret |-> ret, emitted |-> <<>>]

----------------------------------------------------------------------------
(* Inputs of the extractors.                                               *)

MaxHostPieces == 3
MaxSegs == 3
MaxLines == 3

RECURSIVE Flatten(_)
Flatten(ss) == IF ss = <<>> THEN <<>> ELSE Head(ss) \o Flatten(Tail(ss))

SeqsUpTo(S, n) == UNION {[1..k -> S] : k \in 0..n}

K_hosts == <<"h", "o", "s", "t", "s", ":">>
K_setName == <<"s", "e", "t", "N", "a", "m", "e", ":">>
K_primary == <<"p", "r", "i", "m", "a", "r", "y", ":">>
K_database == <<"*", "*", " ", "D", "A", "T", "A", "B", "A", "S", "E", ":">>

\* The entries of a hosts list:  'h1' ,  '',  'h2' , nothing, ''h3', h4
HostPieces ==
    { <<" ", Quote, "h", "1", Quote, " ">>,
      <<" ", Quote, Quote>>,
      <<" ", Quote, "h", "2", Quote, " ">>,
      <<>>,
      <<Quote, Quote, "h", "3", Quote>>,
      <<"h", "4">> }

HostContents ==
    { K_hosts \o <<" ", "[">> \o Join(ps, <<",">>) \o <<"]">> :
        ps \in SeqsUpTo(HostPieces, MaxHostPieces) \ {<<>>} }

\* Pieces of a cluster log: complete, empty, unterminated and unrelated ones.
ClusterSegs ==
    { K_setName \o <<" ", Quote, "r", "0", Quote, "\n">>,
      K_setName \o <<Quote, " ", Quote>>,
      K_setName \o <<" ", Quote, "r", "1">>,
      K_hosts \o <<" ", "[", "]">>,
      K_hosts \o <<"[", Quote, "h", "1", Quote>>,
      K_primary \o <<" ", Quote, "p", "1", Quote, " ">>,
      K_primary \o <<Quote, Quote>>,
      <<"x", "\n">> }

ClusterContents == { Flatten(ss) : ss \in SeqsUpTo(ClusterSegs, MaxSegs) }

ClusterInputs == HostContents \cup ClusterContents

\* Lines of a database log.
DbLines ==
    { <<>>,
      <<" ">>,
      K_database \o <<" ", "f", "o", "o">>,
      <<"x", " ">> \o K_database \o <<"b", "a", "r", " ", "z">>,
      K_database \o <<" ">>,
      <<"x">> }

DbInputs ==
    { Join(ls, <<"\n">>) : ls \in SeqsUpTo(DbLines, MaxLines) \ {<<>>} }

\* parse_cluster_info(content) called on a fresh Parser.
ExtractCluster ==
    /\ pc = "loaded"
    /\ \E content \in ClusterInputs :
         last' = Returned("parse_cluster_info", content,
                          parse_cluster_info(Self, content))
    /\ pc' = "returned"
    /\ UNCHANGED <<argv, fault, exitCode, config, parsed_data, stdout,
                   outfile, handle, log, calls, firstRet, lastGood>>

NextCluster == ExtractCluster

SpecCluster == Init /\ [][NextCluster]_vars

\* parse_database_info(content) called on a fresh Parser.
ExtractDatabase ==
    /\ pc = "loaded"
    /\ \E content \in DbInputs :
         last' = Returned("parse_database_info", content,
                          parse_database_info(Self, content))
    /\ pc' = "returned"
    /\ UNCHANGED <<argv, fault, exitCode, config, parsed_data, stdout,
                   outfile, handle, log, calls, firstRet, lastGood>>

NextDatabase == ExtractDatabase

SpecDatabase == Init /\ [][NextDatabase]_vars

----------------------------------------------------------------------------
(* The files read_text_file can be asked for.                              *)

\* setName: 'r0' / hosts: [ 'h1', 'h2' ] / primary: 'h1'
F_cluster ==
    K_setName \o <<" ", Quote, "r", "0", Quote, "\n">>
    \o K_hosts \o <<" ", "[", " ", Quote, "h", "1", Quote, ",", " ",
                    Quote, "h", "2", Quote, " ", "]", "\n">>
    \o K_primary \o <<" ", Quote, "h", "1", Quote, "\n">>

\* ** DATABASE: foo / x / ** DATABASE: bar
F_db ==
    K_database \o <<" ", "f", "o", "o", "\n", "x", "\n">>
    \o K_database \o <<" ", "b", "a", "r", "\n">>

\* a log with nothing to extract in either mode
F_plain == <<"x", "\n">>

File(status, content) == [status |-> status, content |-> content]

FS ==
    [ cluster_log |-> File("ok", F_cluster),
      db_log      |-> File("ok", F_db),
      plain_log   |-> File("ok", F_plain),
      gone_log    |-> File("missing", <<>>),       \* no such file
      locked_log  |-> File("denied", <<>>),        \* PermissionError on open
      binary_log  |-> File("undecodable", <<>>),   \* not UTF-8
      huge_log    |-> File("too_big", <<>>) ]      \* read() runs out of memory

Paths == DOMAIN FS

----------------------------------------------------------------------------
(* Parser.read_text_file, Parser.parse_file.                               *)

Raise(exc, logged) ==
    [status |-> "raise", exc |-> exc, ret |-> <<>>, log |-> logged]

Return(ret, logged) ==
    [status |-> "return", exc |-> "none", ret |-> ret, log |-> logged]

\* FileNotFoundError and the other OSErrors are logged and re-raised;
\* UnicodeDecodeError (a ValueError) and MemoryError pass through unlogged.
read_text_file(file_path) ==
    CASE FS[file_path].status = "ok" ->
           Return(FS[file_path].content, <<>>)
      [] FS[file_path].status = "missing" ->
           Raise("FileNotFoundError", <<"ERROR File not found">>)
      [] FS[file_path].status = "denied" ->
           Raise("PermissionError", <<"ERROR Error reading file">>)
      [] FS[file_path].status = "undecodable" ->
           Raise("UnicodeDecodeError", <<>>)
      [] FS[file_path].status = "too_big" ->
           Raise("MemoryError", <<>>)

\* parse_file emptying parsed_data before it reads the file.
parse_file_reset(self, file_path, parse_type) ==
    LET read == read_text_file(file_path)
    IN  IF read.status = "raise"
        THEN [outcome |-> read, parsed_data |-> <<>>]
        ELSE IF parse_type = "cluster"
        THEN LET data == parse_cluster_info(self, read.ret)
             IN  [outcome |-> Return(data, <<>>), parsed_data |-> data]
        ELSE IF parse_type = "database"
        THEN LET data == parse_database_info(self, read.ret)
             IN  [outcome |-> Return(data, <<>>), parsed_data |-> data]
        ELSE [outcome |-> Raise("ValueError", <<"ERROR Invalid parse type">>),
              parsed_data |-> <<>>]

\* parse_file swallowing a failed read and going on with no content.
parse_file_swallow(self, file_path, parse_type) ==
    LET read == read_text_file(file_path)
        text == IF read.status = "raise" THEN <<>> ELSE read.ret
    IN  IF parse_type = "cluster"
        THEN LET data == parse_cluster_info(self, text)
             IN  [outcome |-> Return(data, <<>>), parsed_data |-> data]
        ELSE IF parse_type = "database"
        THEN LET data == parse_database_info(self, text)
             IN  [outcome |-> Return(data, <<>>), parsed_data |-> data]
        ELSE [outcome |-> Raise("ValueError", <<"ERROR Invalid parse type">>),
              parsed_data |-> self.parsed_data]

\* The outcome of parse_file and the parsed_data it leaves behind.
parse_file(self, file_path, parse_type) ==
    LET read == read_text_file(file_path)
    IN  IF read.status = "raise"
        THEN [outcome |-> read, parsed_data |-> self.parsed_data]
        ELSE IF parse_type = "cluster"
        THEN LET data == parse_cluster_info(self, read.ret)
             IN  [outcome |-> Return(data, <<>>), parsed_data |-> data]
        ELSE IF parse_type = "database"
        THEN LET data == parse_database_info(self, read.ret)
             IN  [outcome |-> Return(data, <<>>), parsed_data |-> data]
        ELSE [outcome |-> Raise("ValueError", <<"ERROR Invalid parse type">>),
              parsed_data |-> self.parsed_data]

----------------------------------------------------------------------------
(* Parser.write_to_csv.                                                    *)

None == "None"

\* The field names that occur, spelled out, and the code points of their
\* characters: sorted() compares str by code point.
FieldChars ==
    [ replica_set_name |-> <<"r", "e", "p", "l", "i", "c", "a", "_", "s", "e",
                             "t", "_", "n", "a", "m", "e">>,
      hosts            |-> <<"h", "o", "s", "t", "s">>,
      primary_host     |-> <<"p", "r", "i", "m", "a", "r", "y", "_", "h", "o",
                             "s", "t">>,
      line_number      |-> <<"l", "i", "n", "e", "_", "n", "u", "m", "b", "e",
                             "r">>,
      database_name    |-> <<"d", "a", "t", "a", "b", "a", "s", "e", "_", "n",
                             "a", "m", "e">> ]

Letters == <<"a", "b", "c", "d", "e", "f", "g", "h", "i", "j", "k", "l", "m",
             "n", "o", "p", "q", "r", "s", "t", "u", "v", "w", "x", "y", "z">>

\* ord(c) for "_" and the lower-case letters.
Ord(c) ==
    IF c = "_" THEN 95
    ELSE 96 + (CHOOSE i \in 1..Len(Letters) : Letters[i] = c)

\* a < b for two str, as Python compares them.
RECURSIVE LexLess(_, _)
LexLess(a, b) ==
    IF b = <<>> THEN FALSE
    ELSE IF a = <<>> THEN TRUE
    ELSE IF Ord(Head(a)) # Ord(Head(b)) THEN Ord(Head(a)) < Ord(Head(b))
    ELSE LexLess(Tail(a), Tail(b))

\* sorted(names, reverse=True)
RECURSIVE sorted_desc(_)
sorted_desc(names) ==
    IF names = {} THEN <<>>
    ELSE LET most == CHOOSE x \in names :
                       \A y \in names \ {x} :
                         LexLess(FieldChars[y], FieldChars[x])
         IN  <<most>> \o sorted_desc(names \ {most})

\* sorted(names)
RECURSIVE sorted(_)
sorted(names) ==
    IF names = {} THEN <<>>
    ELSE LET least == CHOOSE x \in names :
                        \A y \in names \ {x} :
                          LexLess(FieldChars[x], FieldChars[y])
         IN  <<least>> \o sorted(names \ {least})

\* sorted(set().union(*(record.keys() for record in self.parsed_data)))
fieldnames(data) ==
    sorted(UNION {DOMAIN data[r] : r \in 1..Len(data)})

\* What writeheader() and writerows() hand to the sink: the header row, then
\* a row per record, a missing key giving DictWriter's restval ''.  A row is
\* the sequence of its cells; quoting of cells is left to the csv module.
csv_rows(data) ==
    LET names == fieldnames(data)
        header == [i \in 1..Len(names) |-> FieldChars[names[i]]]
        row(record) == [i \in 1..Len(names) |->
                          IF names[i] \in DOMAIN record
                          THEN record[names[i]] ELSE <<>>]
    IN  <<header>> \o [r \in 1..Len(data) |-> row(data[r])]

\* The finally clause: writer._dict_to_list(None).close().  With no writer
\* bound (open() raised) the name lookup raises UnboundLocalError; otherwise
\* DictWriter._dict_to_list(None) raises on None.keys() before any close().
finally_close(output_file, writer_bound) ==
    IF output_file = None THEN [exc |-> "none", closed |-> FALSE]
    ELSE IF ~writer_bound
    THEN [exc |-> "UnboundLocalError", closed |-> FALSE]
    ELSE [exc |-> "AttributeError", closed |-> FALSE]

\* The body of write_to_csv past its guard: sort, open, write, finally.
write_rows(self, output_file, open_ok, written) ==
    LET rows   == csv_rows(self.parsed_data)
        opened == output_file # None /\ open_ok
        bound  == output_file = None \/ open_ok
        done   == IF bound THEN SubSeq(rows, 1, written) ELSE <<>>
        io     == IF ~bound THEN "open"
                  ELSE IF written < Len(rows) THEN "write" ELSE "none"
        fin    == finally_close(output_file, bound)
        exc    == IF fin.exc # "none" THEN fin.exc
                  ELSE IF io # "none" THEN "IOError" ELSE "none"
    IN  [status  |-> IF exc = "none" THEN "return" ELSE "raise",
         exc     |-> exc,
         emitted |-> done,
         opened  |-> opened,
         handle  |-> IF ~opened THEN "none"
                     ELSE IF fin.closed THEN "closed" ELSE "open",
         io      |-> io,
         log     |-> IF io # "none" THEN <<"ERROR Error writing to CSV">>
                     ELSE <<"INFO Successfully wrote records">>]

\* write_to_csv without the test for an empty list.
write_to_csv_noguard(self, output_file, open_ok, written) ==
    write_rows(self, output_file, open_ok, written)

\* write_to_csv(output_file) where the environment lets open() succeed or
\* not (open_ok) and lets `written` rows through before a write fails.
write_to_csv(self, output_file, open_ok, written) ==
    IF self.parsed_data = <<>>
    THEN [status |-> "return", exc |-> "none", emitted |-> <<>>,
          opened |-> FALSE, handle |-> "none", io |-> "none",
          log |-> <<"WARNING No data to write to CSV">>]
    ELSE write_rows(self, output_file, open_ok, written)

----------------------------------------------------------------------------
(* A client that imported the module calls the Parser's methods.           *)

MaxCalls == 3

ParseTypes == {"cluster", "database", "foo"}

OutputFiles == {None, "out_csv"}

FileContents == {FS[p].content : p \in {q \in Paths : FS[q].status = "ok"}}

CallRecord(op, arg, out, io, outcome, emitted) ==
    [op |-> op, arg |-> arg, out |-> out, io |-> io,
     status |-> outcome.status, exc |-> outcome.exc, ret |-> outcome.ret,
     emitted |-> emitted]

\* firstRet once the extractor kind has returned ret for content: the first
\* result is kept and the calls are counted.
Remember(kind, content, ret) ==
    IF <<kind, content>> \in DOMAIN firstRet
    THEN [firstRet EXCEPT ![<<kind, content>>].n = @ + 1]
    ELSE firstRet @@ (<<kind, content>> :> [ret |-> ret, n |-> 1])

ClientTurn ==
    /\ pc \in {"loaded", "imported"}
    /\ calls < MaxCalls
    /\ pc' = "imported"
    /\ calls' = calls + 1
    /\ UNCHANGED <<argv, fault, exitCode>>

Call_parse_cluster_info ==
    /\ ClientTurn
    /\ \E content \in FileContents :
         LET ret == parse_cluster_info(Self, content)
         IN  /\ last' = Returned("parse_cluster_info", content, ret)
             /\ firstRet' = Remember("cluster", content, ret)
    /\ log' = <<>>
    /\ UNCHANGED <<config, parsed_data, stdout, outfile, handle, lastGood>>

Call_parse_database_info ==
    /\ ClientTurn
    /\ \E content \in FileContents :
         LET ret == parse_database_info(Self, content)
         IN  /\ last' = Returned("parse_database_info", content, ret)
             /\ firstRet' = Remember("database", content, ret)
    /\ log' = <<>>
    /\ UNCHANGED <<config, parsed_data, stdout, outfile, handle, lastGood>>

\* The effect of parse_file(file_path, parse_type) on the state.
Do_parse_file(file_path, parse_type) ==
    LET r == parse_file(Self, file_path, parse_type)
    IN  /\ parsed_data' = r.parsed_data
        /\ last' = CallRecord("parse_file", <<file_path, parse_type>>, "none",
                              "none", r.outcome, <<>>)
        /\ log' = r.outcome.log
        /\ lastGood' = IF r.outcome.status = "return" THEN r.outcome.ret
                       ELSE lastGood
        /\ firstRet' = IF r.outcome.status = "return"
                       THEN Remember(parse_type, FS[file_path].content,
                                     r.outcome.ret)
                       ELSE firstRet
        /\ UNCHANGED <<config, stdout, outfile, handle>>

Call_parse_file ==
    /\ ClientTurn
    /\ \E file_path \in Paths, parse_type \in ParseTypes :
         Do_parse_file(file_path, parse_type)

\* The effect of write_to_csv(output_file) on the state.
Do_write_to_csv(output_file, open_ok, written) ==
    LET r == write_to_csv(Self, output_file, open_ok, written)
    IN  /\ stdout' = IF output_file = None THEN stdout \o r.emitted ELSE stdout
        /\ outfile' = IF r.opened THEN r.emitted ELSE outfile
        /\ handle' = r.handle
        /\ last' = [op |-> "write_to_csv", arg |-> <<>>, out |-> output_file,
                    io |-> r.io, status |-> r.status, exc |-> r.exc,
                    ret |-> <<>>, emitted |-> r.emitted]
        /\ log' = r.log
        /\ UNCHANGED <<config, parsed_data, firstRet, lastGood>>

Call_write_to_csv ==
    /\ ClientTurn
    /\ \E output_file \in OutputFiles, open_ok \in BOOLEAN,
          written \in 0..(Len(parsed_data) + 1) :
         Do_write_to_csv(output_file, open_ok, written)

----------------------------------------------------------------------------
(* The module run as a script: main().                                     *)

Choices == {"cluster", "database"}

\* The command lines: parse_type input_file, too few arguments, and the
\* -h option ArgumentParser adds, before or after the positionals.
Argvs ==
    {<<m, p>> : m \in ParseTypes, p \in Paths}
      \cup {<<m>> : m \in ParseTypes} \cup {<<>>}
      \cup {<<"-h">>}
      \cup {<<"-h", m>> : m \in ParseTypes}
      \cup {<<m, "-h">> : m \in ParseTypes}
      \cup {<<m, p, "-h">> : m \in ParseTypes, p \in Paths}

\* The position of the first -h in args, 0 when there is none.
HelpAt(args) ==
    IF \E i \in 1..Len(args) : args[i] = "-h"
    THEN CHOOSE i \in 1..Len(args) :
           args[i] = "-h" /\ \A j \in 1..(i - 1) : args[j] # "-h"
    ELSE 0

\* The help text argparse prints to sys.stdout, as one row of one cell.
HelpText == << << <<"u", "s", "a", "g", "e">> >> >>

\* parser.parse_args() takes the arguments in order: a parse_type outside
\* the choices is a usage error as soon as it is consumed, -h prints the help
\* to stdout and ends the process with status 0, and a command line that is
\* not parse_type input_file is a usage error (status 2, SystemExit).  Then a
\* path that is not a file is logged and ends the process with sys.exit(1).
parse_arguments(args) ==
    LET h == HelpAt(args)
    IN  IF h > 1 /\ args[1] \notin Choices
        THEN [status |-> "exit", code |-> 2, log |-> <<"usage error">>,
              out |-> <<>>]
        ELSE IF h > 0
        THEN [status |-> "exit", code |-> 0, log |-> <<>>, out |-> HelpText]
        ELSE IF Len(args) # 2 \/ args[1] \notin Choices
        THEN [status |-> "exit", code |-> 2, log |-> <<"usage error">>,
              out |-> <<>>]
        ELSE IF FS[args[2]].status = "missing"
        THEN [status |-> "exit", code |-> 1,
              log |-> <<"ERROR Input file does not exist">>, out |-> <<>>]
        ELSE [status |-> "return", code |-> 0, log |-> <<>>, out |-> <<>>]

ValueErrors == {"ValueError", "UnicodeDecodeError"}
IOErrors == {"IOError", "FileNotFoundError", "PermissionError"}

\* main's except clauses logging without ending the process.
main_except_noexit(exc) ==
    IF exc \in ValueErrors \cup IOErrors
    THEN [code |-> 0, log |-> <<"ERROR Processing failed">>]
    ELSE [code |-> 0, log |-> <<"ERROR Unexpected error">>]

\* main's two except clauses: both log and sys.exit(1).
main_except(exc) ==
    IF exc \in ValueErrors \cup IOErrors
    THEN [code |-> 1, log |-> <<"ERROR Processing failed">>]
    ELSE [code |-> 1, log |-> <<"ERROR Unexpected error">>]

\* What is wrong with the command line, whatever the program makes of it.
\* "help" is no fault: the help was asked for and no usage error precedes it.
ArgFault(args) ==
    IF HelpAt(args) > 1 /\ args[1] \notin Choices THEN "usage"
    ELSE IF HelpAt(args) > 0 THEN "help"
    ELSE IF Len(args) # 2 \/ args[1] \notin Choices THEN "usage"
    ELSE IF FS[args[2]].status = "missing" THEN "no_input"
    ELSE "none"

MainParseArguments ==
    /\ pc = "loaded"
    /\ \E args \in Argvs :
         LET r == parse_arguments(args)
         IN  /\ argv' = args
             /\ fault' = ArgFault(args)
             /\ log' = r.log
             /\ stdout' = stdout \o r.out
             /\ last' = [NoCall EXCEPT !.op = "parse_arguments",
                                       !.status = r.status]
             /\ IF r.status = "exit"
                THEN pc' = "exited" /\ exitCode' = r.code
                ELSE pc' = "args_ok" /\ exitCode' = exitCode
    /\ UNCHANGED <<config, parsed_data, outfile, handle, calls,
                   firstRet, lastGood>>

MainParseFile ==
    /\ pc = "args_ok"
    /\ Do_parse_file(argv[2], argv[1])
    /\ LET r == parse_file(Self, argv[2], argv[1])
       IN  IF r.outcome.status = "raise"
           THEN /\ pc' = "exited"
                /\ exitCode' = main_except(r.outcome.exc).code
                /\ fault' = "read"
           ELSE /\ pc' = "parsed"
                /\ UNCHANGED <<exitCode, fault>>
    /\ UNCHANGED <<argv, calls>>

MainWriteCsv ==
    /\ pc = "parsed"
    /\ \E written \in 0..(Len(parsed_data) + 1) :
         /\ Do_write_to_csv(None, TRUE, written)
         /\ LET r == write_to_csv(Self, None, TRUE, written)
            IN  IF r.status = "raise"
                THEN /\ pc' = "exited"
                     /\ exitCode' = main_except(r.exc).code
                     /\ fault' = "write"
                ELSE /\ pc' = "written"
                     /\ UNCHANGED <<exitCode, fault>>
    /\ UNCHANGED <<argv, calls>>

\* The closing log lines and the preview of the first record; the process
\* then ends with status 0.
MainFinish ==
    /\ pc = "written"
    /\ pc' = "exited"
    /\ exitCode' = 0
    /\ log' = <<"INFO Parsing complete">>
    /\ UNCHANGED <<argv, fault, config, parsed_data, stdout, outfile, handle,
                   last, calls, firstRet, lastGood>>

Next ==
    \/ Call_parse_cluster_info
    \/ Call_parse_database_info
    \/ Call_parse_file
    \/ Call_write_to_csv
    \/ MainParseArguments
    \/ MainParseFile
    \/ MainWriteCsv
    \/ MainFinish

Spec == Init /\ [][Next]_vars

----------------------------------------------------------------------------
(* write_to_csv on a Parser whose parsed_data (a public attribute) holds   *)
(* any list of records.                                                    *)

MaxRecords == 2

CsvNames == {"hosts", "primary_host", "database_name"}

\* A value for each field, and a record whose hosts value is empty.
CsvValue ==
    [hosts |-> <<"h">>, primary_host |-> <<"p">>, database_name |-> <<"d">>]

CsvRecords ==
    {[f \in D |-> CsvValue[f]] : D \in SUBSET CsvNames}
      \cup {[f \in {"hosts"} |-> <<>>]}

RecordLists == SeqsUpTo(CsvRecords, MaxRecords)

InitCsv ==
    /\ pc = "loaded"
    /\ argv = <<>>
    /\ fault = "none"
    /\ exitCode = -1
    /\ config = [cluster |-> CLUSTER_REGEXES, database |-> DATABASE_REGEXES]
    /\ parsed_data \in RecordLists
    /\ stdout = <<>>
    /\ outfile = <<>>
    /\ handle = "none"
    /\ log = <<>>
    /\ last = NoCall
    /\ calls = 0
    /\ firstRet = <<>>
    /\ lastGood = <<>>

WriteRecords ==
    /\ pc = "loaded"
    /\ \E output_file \in OutputFiles, open_ok \in BOOLEAN,
          written \in 0..(Len(parsed_data) + 1) :
         Do_write_to_csv(output_file, open_ok, written)
    /\ pc' = "returned"
    /\ UNCHANGED <<argv, fault, exitCode, calls>>

NextCsv == WriteRecords

SpecCsv == InitCsv /\ [][NextCsv]_vars

----------------------------------------------------------------------------
(* Properties.                                                             *)

\* s without one leading and one trailing c, where present.
StripOne(s, c) ==
    LET a == IF s # <<>> /\ Head(s) = c THEN Tail(s) ELSE s
    IN  IF a # <<>> /\ a[Len(a)] = c THEN SubSeq(a, 1, Len(a) - 1) ELSE a

\* The hosts value as stated: split on ',', trim, strip one quote at each
\* end, discard the empty pieces, join with " | ".
StatedHosts(group) ==
    LET pieces  == Split(group, ",")
        cleaned == [i \in 1..Len(pieces) |-> StripOne(Strip(pieces[i]), Quote)]
        kept    == SelectSeq(cleaned, LAMBDA h : h # <<>>)
    IN  Join(kept, <<" ", "|", " ">>)

\* C1: whenever the hosts pattern matches the content, the hosts value of
\* the record parse_cluster_info returns is the stated one: the pieces of
\* capture group 1 trimmed, stripped of one quote at each end, the empty ones
\* discarded, joined with " | " (so [ 'h1' , '', 'h2' ] gives "h1 | h2").
C1_HostsAsStated ==
    (pc = "returned" /\ last.op = "parse_cluster_info"
       /\ re_search(RE_hosts, last.arg).ok)
    => /\ Len(last.ret) = 1
       /\ "hosts" \in DOMAIN last.ret[1]
       /\ last.ret[1]["hosts"] = StatedHosts(re_search(RE_hosts, last.arg).group)

\* The records as stated: one per line of the input content that matches,
\* numbered by the line's 1-based index in the input content.
StatedDatabase(content) ==
    LET lines == Split(content, "\n")
        hit(n) == re_search(RE_database_name, lines[n])
        all   == [n \in 1..Len(lines) |->
                    [line_number   |-> IntToStr(n),
                     database_name |-> Strip(hit(n).group)]]
    IN  SelectSeq(all, LAMBDA r : r.database_name # <<>>)

\* C2: parse_database_info returns exactly one record per input line that
\* matches database_name, in line order, whose line_number is the 1-based
\* index of the line in the input content (leading blank lines included) and
\* whose database_name is the trimmed capture.
C2_LineNumbersOfInput ==
    (pc = "returned" /\ last.op = "parse_database_info")
    => last.ret = StatedDatabase(last.arg)

\* The cluster pattern of field f matches somewhere in content.
Hit(f, content) ==
    \E i \in 1..(Len(content) + 1) : MatchAt(CLUSTER_REGEXES[f], content, i).ok

\* Capture group 1 of the leftmost match of field f's pattern.
FirstGroup(f, content) ==
    LET i == CHOOSE i \in 1..(Len(content) + 1) :
               /\ MatchAt(CLUSTER_REGEXES[f], content, i).ok
               /\ \A j \in 1..(i - 1) :
                    ~MatchAt(CLUSTER_REGEXES[f], content, j).ok
    IN  MatchAt(CLUSTER_REGEXES[f], content, i).group

\* C3: parse_cluster_info returns no record exactly when none of the three
\* patterns matches anywhere in the content, and otherwise one record whose
\* keys are exactly the fields whose pattern matched, each value taken from
\* the leftmost match (an empty capture still gives a present, empty field).
C3_ZeroOrOneRecord ==
    (pc = "returned" /\ last.op = "parse_cluster_info")
    => LET fields == {f \in DOMAIN CLUSTER_REGEXES : Hit(f, last.arg)}
       IN  /\ Len(last.ret) <= 1
           /\ (last.ret = <<>>) <=> (fields = {})
           /\ last.ret # <<>> =>
                /\ DOMAIN last.ret[1] = fields
                /\ \A f \in fields :
                     last.ret[1][f] =
                       IF f = "hosts"
                       THEN hosts_value(FirstGroup(f, last.arg))
                       ELSE Strip(FirstGroup(f, last.arg))

\* C3 witness: the content hosts: [] gave one record whose only field, hosts,
\* is present and empty.
C3_Witness ==
    /\ pc = "returned"
    /\ last.op = "parse_cluster_info"
    /\ Len(last.ret) = 1
    /\ DOMAIN last.ret[1] = {"hosts"}
    /\ last.ret[1]["hosts"] = <<>>

\* C4: after write_to_csv on a named output file the handle it opened is
\* closed, whether the write succeeded or failed, and a call that met no I/O
\* error returned normally.
C4_HandleClosed ==
    (last.op = "write_to_csv" /\ last.out # None)
    => /\ handle # "open"
       /\ last.io = "none" => last.status = "return"

\* C5 as stated: the process ends with status 0 on success and with status 1
\* on every failure, a bad command line included.
C5_ExitOneOnEveryFailure ==
    pc = "exited" => exitCode = IF fault \in {"none", "help"} THEN 0 ELSE 1

\* C5: the process ends with status 0 on success (and after printing the
\* help asked for with -h), with status 2 when the command line is rejected
\* by the argument parser (invalid mode, wrong number of arguments), and
\* with status 1 on every other failure.
C5_ExitCodes ==
    pc = "exited"
    => exitCode = CASE fault \in {"none", "help"} -> 0
                    [] fault = "usage"            -> 2
                    [] OTHER                      -> 1

\* C5 witness: a run with an invalid mode has ended.
C5_Witness ==
    /\ pc = "exited"
    /\ Len(argv) = 2
    /\ argv[1] = "foo"
    /\ fault = "usage"

\* The states of a run of main.
InMain == pc \in {"args_ok", "parsed", "written", "exited"}

\* The command line is valid and its input file can be read.
InputReadable ==
    /\ ArgFault(argv) = "none"
    /\ FS[argv[2]].status = "ok"

\* C6 as stated: in every run of main standard output is empty unless the
\* arguments were valid and the file was read; a run with an invalid mode, a
\* missing input file or a failed read ends with a non-zero status and empty
\* output.
C6_NoOutputInAnyRun ==
    InMain
    => /\ stdout # <<>> => InputReadable
       /\ (pc = "exited" /\ ~InputReadable)
            => exitCode \notin {0, -1} /\ stdout = <<>>

\* C6: in a run of main standard output holds nothing but the help text of
\* -h (the run then ends with status 0) unless the arguments were valid and
\* the file was read; a run without help that has an invalid mode, a missing
\* input file or a failed read ends with a non-zero status and empty output.
C6_NoOutputBeforeRead ==
    InMain
    => /\ stdout # <<>>
            => \/ InputReadable
               \/ ArgFault(argv) = "help" /\ stdout = HelpText /\ exitCode = 0
       /\ (pc = "exited" /\ ~InputReadable /\ ArgFault(argv) # "help")
            => exitCode \notin {0, -1} /\ stdout = <<>>

\* C6 witness: a run whose read failed has ended.
C6_Witness ==
    /\ pc = "exited"
    /\ fault = "read"
    /\ last.op = "parse_file"
    /\ last.status = "raise"

\* The field name spelled by a header cell.
NameOf(cell) == CHOOSE n \in DOMAIN FieldChars : FieldChars[n] = cell

\* C7: for a non-empty list of records write_to_csv emits a header row that
\* is the sorted union of the records' field names, then one row per record
\* in order, each cell the record's value for the column or empty when the
\* record lacks the field.
C7_HeaderAndRows ==
    (last.op = "write_to_csv" /\ parsed_data # <<>> /\ last.io = "none")
    => LET out   == last.emitted
           names == UNION {DOMAIN parsed_data[r] : r \in 1..Len(parsed_data)}
       IN  /\ Len(out) = 1 + Len(parsed_data)
           /\ Len(out[1]) = Cardinality(names)
           /\ {out[1][i] : i \in 1..Len(out[1])} = {FieldChars[n] : n \in names}
           /\ \A i, j \in 1..Len(out[1]) : i < j => LexLess(out[1][i], out[1][j])
           /\ \A r \in 1..Len(parsed_data) :
                /\ Len(out[r + 1]) = Len(out[1])
                /\ \A i \in 1..Len(out[1]) :
                     out[r + 1][i] =
                       IF NameOf(out[1][i]) \in DOMAIN parsed_data[r]
                       THEN parsed_data[r][NameOf(out[1][i])]
                       ELSE <<>>

\* C7 witness: two records were written, the second lacking a field the
\* first has and having a field that sorts before it.
C7_Witness ==
    /\ last.op = "write_to_csv"
    /\ last.io = "none"
    /\ Len(parsed_data) = 2
    /\ DOMAIN parsed_data[1] = {"hosts"}
    /\ DOMAIN parsed_data[2] = {"database_name"}
    /\ Len(last.emitted) = 3

\* C8: with an empty record list write_to_csv emits nothing, opens no file,
\* logs that there is no data and returns normally; a run of main that
\* extracted no record ends with status 0 and empty standard output.
C8_EmptyWritesNothing ==
    /\ (last.op = "write_to_csv" /\ parsed_data = <<>>)
         => /\ last.emitted = <<>>
            /\ handle = "none"
            /\ last.status = "return"
            /\ pc # "exited" => log = <<"WARNING No data to write to CSV">>
    /\ (pc = "exited" /\ last.op = "write_to_csv" /\ parsed_data = <<>>)
         => exitCode = 0 /\ stdout = <<>>

\* C8 witness: a run of main on a log with nothing to extract has ended.
C8_Witness ==
    /\ pc = "exited"
    /\ last.op = "write_to_csv"
    /\ parsed_data = <<>>
    /\ argv[2] = "plain_log"

\* The extractor and content of the call recorded in c.
KeyOf(c) ==
    CASE c.op = "parse_cluster_info"  -> <<"cluster", c.arg>>
      [] c.op = "parse_database_info" -> <<"database", c.arg>>
      [] c.op = "parse_file"          -> <<c.arg[2], FS[c.arg[1]].content>>

\* C9: every extractor call that returns, direct or through parse_file,
\* returns what the first call on the same content returned, whatever
\* parsed_data held; no call changes the pattern configuration and a direct
\* extractor call leaves parsed_data alone.
C9_Idempotent ==
    [][ /\ config' = config
        /\ (calls' # calls /\ last'.status = "return"
              /\ last'.op \in {"parse_cluster_info", "parse_database_info",
                               "parse_file"})
             => /\ KeyOf(last') \in DOMAIN firstRet'
                /\ last'.ret = firstRet'[KeyOf(last')].ret
                /\ last'.op # "parse_file" => parsed_data' = parsed_data
      ]_vars

\* C9 witness: the database extractor ran a second time on a content, on a
\* Parser that was holding records by then.
C9_Witness ==
    /\ last.op = "parse_database_info"
    /\ firstRet[<<"database", last.arg>>].n >= 2
    /\ last.ret # <<>>
    /\ parsed_data # <<>>

\* C10: parsed_data changes only in a parse_file call that returns, to the
\* list returned; a parse_file call that raises and write_to_csv leave it as
\* it was, and write_to_csv emits the rows of the last successful parse.
C10_ParsedDataFrame ==
    [][ /\ parsed_data' # parsed_data
             => /\ last'.op = "parse_file"
                /\ last'.status = "return"
                /\ parsed_data' = last'.ret
        /\ (last' # last /\ last'.op = "parse_file" /\ last'.status = "raise")
             => parsed_data' = parsed_data
        /\ (last'.op = "write_to_csv" /\ last'.io = "none")
             => /\ parsed_data' = parsed_data
                /\ last'.emitted = IF lastGood' = <<>> THEN <<>>
                                   ELSE csv_rows(lastGood')
      ]_vars

\* C10 witness: a parse_file call raised on a Parser holding the records of
\* an earlier parse.
C10_Witness ==
    /\ last.op = "parse_file"
    /\ last.status = "raise"
    /\ parsed_data # <<>>
    /\ parsed_data = lastGood

====
